---------------------------- MODULE Spec2Model ----------------------------
(***************************************************************************)
(* A model of the season-calendar web application (src/app.py): the user   *)
(* table, the activity table, the Flask-Login session of each browser and  *)
(* the route handlers.  Every handler is one action, except register,      *)
(* whose database commit is a step of its own so that two registrations    *)
(* can interleave between the uniqueness queries and the INSERT.           *)
(*                                                                         *)
(* Text is modelled as follows.  Passwords and the month field of a form   *)
(* are sequences of one-character strings, since validate_password and     *)
(* int() look at the characters.  The character "e_acute" stands for the   *)
(* non-ASCII letter U+00E9.  The four activity types of month_detail are   *)
(* written "alone", "friends", "family", "elderly" for the Japanese        *)
(* literals of the source.  Usernames, e-mails, titles and categories are  *)
(* only ever compared for equality by the code and are plain strings.      *)
(***************************************************************************)
EXTENDS Integers, Sequences, FiniteSets, TLC

VARIABLES
    users,       \* the user table: a set of rows
    activities,  \* the season_activity table: a set of rows
    session,     \* per browser: the _user_id of its session cookie
    pending,     \* per browser: the register request between its checks and its
                 \* commit, if any (a set of at most one)
    last         \* the request handled by the latest step, and its response

vars == <<users, activities, session, pending, last>>

---------------------------------------------------------------------------
(* Bounds of the model and the inputs the requests are drawn from.         *)

MaxActivityId == 2
MaxPwLen == 9

Clients == {"c1", "c2"}
Usernames == {"alice", "bob"}
Emails == {"a@x.com", "b@x.com"}
Salts == {"s1"}

\* The session cookie of a browser that is not logged in holds no _user_id;
\* row ids start at 1.
Anonymous == 0
\* A form is a record of its fields; form.missing names the keys the
\* request did not send, whose values in the record mean nothing.
NoField == "<missing>"
None == "<none>"
\* A GET request carries no form.
NoForm == None

---------------------------------------------------------------------------
(* Characters, validate_password and int().                                *)

AsciiLower ==
    {"a","b","c","d","e","f","g","h","i","j","k","l","m",
     "n","o","p","q","r","s","t","u","v","w","x","y","z"}
AsciiUpper ==
    {"A","B","C","D","E","F","G","H","I","J","K","L","M",
     "N","O","P","Q","R","S","T","U","V","W","X","Y","Z"}
Digits == {"0","1","2","3","4","5","6","7","8","9"}

DigitValue(ch) ==
    CASE ch = "0" -> 0 [] ch = "1" -> 1 [] ch = "2" -> 2 [] ch = "3" -> 3
      [] ch = "4" -> 4 [] ch = "5" -> 5 [] ch = "6" -> 6 [] ch = "7" -> 7
      [] ch = "8" -> 8 [] ch = "9" -> 9

\* The character class [a-zA-Z0-9] of the pattern.
InClass(ch) == ch \in AsciiLower \cup AsciiUpper \cup Digits

MinPasswordLen == 8

\* re.match(r'^[a-zA-Z0-9]+$', s): one or more class characters from the
\* start, then "$", which Python matches at the end of the string and
\* also just before a line break that ends the string.
ReMatch(s) ==
    \E k \in 1..Len(s) :
        /\ \A i \in 1..k : InClass(s[i])
        /\ \/ k = Len(s)
           \/ k = Len(s) - 1 /\ s[Len(s)] = "\n"

\* validate_password: the flash message of the first failed test, or None.
validate_password(password) ==
    IF password = <<>> THEN "password_empty"
    ELSE IF Len(password) < MinPasswordLen THEN "password_too_short"
    ELSE IF ~ReMatch(password) THEN "password_not_alnum"
    ELSE None

RECURSIVE DigitsValue(_)
DigitsValue(s) ==
    IF s = <<>> THEN 0
    ELSE 10 * DigitsValue(SubSeq(s, 1, Len(s) - 1)) + DigitValue(s[Len(s)])

\* int(text) on a character sequence: an optional sign, then one or more
\* decimal digits; anything else raises ValueError.  (int() also accepts
\* surrounding blanks, underscores between digits and non-ASCII digits;
\* no form of the model contains any.)
IntOf(s) ==
    LET signed == s # <<>> /\ s[1] \in {"+", "-"}
        body == IF signed THEN Tail(s) ELSE s
    IN IF body = <<>> \/ \E i \in 1..Len(body) : body[i] \notin Digits
       THEN [ok |-> FALSE, value |-> 0]
       ELSE [ok |-> TRUE,
             value |-> IF signed /\ s[1] = "-" THEN 0 - DigitsValue(body)
                       ELSE DigitsValue(body)]

---------------------------------------------------------------------------
(* Password hashing (werkzeug): a salted digest.  The digest is modelled   *)
(* as an ideal one: two digests agree only on the same salt and password.  *)

Digest(salt, password) == <<salt, password>>

generate_password_hash(salt, password) ==
    [salt |-> salt, digest |-> Digest(salt, password)]

check_password_hash(pwhash, password) ==
    pwhash.digest = Digest(pwhash.salt, password)

---------------------------------------------------------------------------
(* SEASON_DATA: the name of each month's season.                           *)

SEASON_DATA ==
    [m \in 1..12 |->
        CASE m \in {1, 2}      -> "winter"
          [] m \in {3, 4, 5}   -> "spring"
          [] m \in {6, 7, 8}   -> "summer"
          [] m \in {9, 10, 11} -> "autumn"
          [] m = 12            -> "winter"]

---------------------------------------------------------------------------
(* Rows, the session and responses.                                        *)

\* SQLite's rowid for an INTEGER PRIMARY KEY: one more than the largest
\* id in the table, 1 for an empty table.
NextRowId(table) ==
    IF table = {} THEN 1
    ELSE (CHOOSE i \in {r.id : r \in table} :
              \A j \in {r.id : r \in table} : j <= i) + 1

\* load_user: the row User.query.get(int(user_id)) finds, if any.
load_user(user_id) == {u \in users : u.id = user_id}

\* As IsAuthenticated, had the handlers run without the login check.
IsAuthenticated_Always(c) == TRUE

\* current_user.is_authenticated for the browser's session cookie.
IsAuthenticated(c) == session[c] # Anonymous /\ load_user(session[c]) # {}

\* The query User.query.filter_by(username=..).first() is not None
\* (and the same for email): exact, case-sensitive comparison.
UsernameExists(username) == \E u \in users : u.username = username
EmailExists(email) == \E u \in users : u.email = email

\* As UniqueViolation, had the columns been declared without unique=True.
UniqueViolation_None(row) == FALSE

\* The UNIQUE constraints on user.username and user.email, which the
\* database checks when the INSERT is committed.
UniqueViolation(row) ==
    \E u \in users : u.username = row.username \/ u.email = row.email

NoRequest ==
    [client |-> None, route |-> None, method |-> None, arg |-> None,
     form |-> None, status |-> 0, page |-> None, data |-> None,
     flash |-> None, log |-> None]

Response(c, route, method, arg, form, status, page, data, flash, log) ==
    [client |-> c, route |-> route, method |-> method, arg |-> arg,
     form |-> form, status |-> status, page |-> page, data |-> data,
     flash |-> flash, log |-> log]

\* redirect(url_for(page, ..)); data carries the URL's parameters.
Redirect(c, route, method, arg, form, page, data, flash) ==
    Response(c, route, method, arg, form, 302, page, data, flash, None)

\* render_template(page, ..); data carries the template's context.
Render(c, route, method, arg, form, page, data, flash) ==
    Response(c, route, method, arg, form, 200, page, data, flash, None)

\* The "except Exception" clause every handler ends with: the exception
\* is printed and the handler returns its error text with status 500.
Caught(c, route, method, arg, form, exc) ==
    Response(c, route, method, arg, form, 500, "error_text", None, None, exc)

\* login_manager.unauthorized(), which @login_required calls for an
\* anonymous session: flash login_message and redirect to login_view.
Unauthorized(c, route, method, arg, form) ==
    Redirect(c, route, method, arg, form, "login", None, "login_required")

---------------------------------------------------------------------------
(* index, login, register, logout.                                         *)

\* As MonthCounts, had the count not been filtered by user_id.
MonthCounts_AllUsers(table, uid) ==
    [month \in 1..12 |-> Cardinality({a \in table : a.month = month})]

\* The dashboard's month_counts: for each month 1..12 the number of rows
\* SeasonActivity.query.filter_by(month=month, user_id=uid).count().
MonthCounts(table, uid) ==
    [month \in 1..12 |->
        Cardinality({a \in table : a.month = month /\ a.user_id = uid})]

index(c) ==
    /\ pending[c] = {}
    /\ last' = IF ~IsAuthenticated(c)
               THEN Redirect(c, "index", "GET", None, NoForm, "login", None,
                             None)
               ELSE Render(c, "index", "GET", None, NoForm, "index.html",
                           MonthCounts(activities, session[c]), None)
    /\ UNCHANGED <<users, activities, session, pending>>

\* As LoginMatch, had login not called check_password.
LoginMatch_AnyPassword(form) == {u \in users : u.username = form.username}

\* The user whose credentials a login form carries, if any.
LoginMatch(form) ==
    {u \in users : /\ u.username = form.username
                   /\ check_password_hash(u.password_hash, form.password)}

login(c, method, form) ==
    /\ pending[c] = {}
    /\ IF IsAuthenticated(c)
       THEN /\ last' = Redirect(c, "login", method, None, form, "index", None,
                                None)
            /\ UNCHANGED session
       ELSE IF method = "GET"
       THEN /\ last' = Render(c, "login", method, None, form, "login.html",
                              None, None)
            /\ UNCHANGED session
       ELSE IF form.missing # {}
       THEN /\ last' = Caught(c, "login", method, None, form,
                              "BadRequestKeyError")
            /\ UNCHANGED session
       ELSE IF LoginMatch(form) # {}
       THEN /\ session' = [session EXCEPT
                              ![c] = (CHOOSE u \in LoginMatch(form) : TRUE).id]
            /\ last' = Redirect(c, "login", method, None, form, "index", None,
                                "logged_in")
       ELSE /\ last' = Render(c, "login", method, None, form, "login.html",
                              None,
                              "bad_credentials")
            /\ UNCHANGED session
    /\ UNCHANGED <<users, activities, pending>>

\* The validation of register's POST branch: the flash message of the
\* first check that fails, or None when the user is to be created.
RegisterError(form) ==
    IF UsernameExists(form.username) THEN "username_taken"
    ELSE IF EmailExists(form.email) THEN "email_taken"
    ELSE IF validate_password(form.password) # None
         THEN validate_password(form.password)
    ELSE IF form.password # form.confirm_password THEN "password_mismatch"
    ELSE None

\* register up to db.session.add(user): the session check, the form, the
\* validation.  A valid form leaves the request in flight, holding the
\* User object it is about to commit.
register(c, method, form) ==
    /\ pending[c] = {}
    /\ IF IsAuthenticated(c)
       THEN /\ last' = Redirect(c, "register", method, None, form, "index",
                                None, None)
            /\ UNCHANGED pending
       ELSE IF method = "GET"
       THEN /\ last' = Render(c, "register", method, None, form,
                              "register.html",
                              None, None)
            /\ UNCHANGED pending
       ELSE IF form.missing # {}
       THEN /\ last' = Caught(c, "register", method, None, form,
                              "BadRequestKeyError")
            /\ UNCHANGED pending
       ELSE IF RegisterError(form) # None
       THEN /\ last' = Render(c, "register", method, None, form,
                              "register.html",
                              None, RegisterError(form))
            /\ UNCHANGED pending
       ELSE \E salt \in Salts :
            /\ pending' = [pending EXCEPT ![c] =
                   {[form |-> form,
                     user |-> [username |-> form.username,
                               email |-> form.email,
                               password_hash |->
                                   generate_password_hash(salt, form.password)]]}]
            /\ last' = Response(c, "register", method, None, form, 0, None,
                                None,
                                None, None)
    /\ UNCHANGED <<users, activities, session>>

\* register from db.session.commit() on: the INSERT, then login_user.
\* A violated UNIQUE constraint raises IntegrityError, which the
\* handler's except clause catches before login_user is reached.
register_commit(c) ==
    /\ pending[c] # {}
    /\ pending' = [pending EXCEPT ![c] = {}]
    /\ LET p == CHOOSE q \in pending[c] : TRUE
       IN IF UniqueViolation(p.user)
          THEN /\ last' = Caught(c, "register", "POST", None, p.form,
                                 "IntegrityError")
               /\ UNCHANGED <<users, session>>
          ELSE LET id == NextRowId(users)
               IN /\ users' = users \cup
                        {[id |-> id,
                          username |-> p.user.username,
                          email |-> p.user.email,
                          password_hash |-> p.user.password_hash]}
                  /\ session' = [session EXCEPT ![c] = id]
                  /\ last' = Redirect(c, "register", "POST", None, p.form,
                                      "index", None, "welcome")
    /\ UNCHANGED activities

logout(c) ==
    /\ pending[c] = {}
    /\ IF ~IsAuthenticated(c)
       THEN /\ last' = Unauthorized(c, "logout", "GET", None, NoForm)
            /\ UNCHANGED session
       ELSE /\ session' = [session EXCEPT ![c] = Anonymous]
            /\ last' = Redirect(c, "logout", "GET", None, NoForm, "login",
                                None,
                                "logged_out")
    /\ UNCHANGED <<users, activities, pending>>

---------------------------------------------------------------------------
(* The activity table and its handlers.                                    *)

\* The keys of categorized_activities in month_detail.
ActivityTypes == {"alone", "friends", "family", "elderly"}

\* Query.all(): the rows in rowid order.
RECURSIVE InIdOrder(_)
InIdOrder(rows) ==
    IF rows = {} THEN <<>>
    ELSE LET first == CHOOSE r \in rows : \A q \in rows : r.id <= q.id
         IN <<first>> \o InIdOrder(rows \ {first})

\* As ActivitiesOf, had the query not been filtered by user_id.
ActivitiesOf_AllUsers(table, uid, month) ==
    InIdOrder({a \in table : a.month = month})

\* SeasonActivity.query.filter_by(month=month, user_id=uid).all()
ActivitiesOf(table, uid, month) ==
    InIdOrder({a \in table : a.month = month /\ a.user_id = uid})

\* The loop of month_detail: each row is appended to the list of its
\* activity_type when that is one of the four keys, and skipped otherwise.
RECURSIVE Categorize(_, _)
Categorize(rows, groups) ==
    IF rows = <<>> THEN groups
    ELSE LET activity == Head(rows)
         IN Categorize(Tail(rows),
                IF activity.activity_type \in DOMAIN groups
                THEN [groups EXCEPT ![activity.activity_type] =
                          Append(@, activity)]
                ELSE groups)

categorized_activities(table, uid, month) ==
    Categorize(ActivitiesOf(table, uid, month),
               [t \in ActivityTypes |-> <<>>])

month_detail(c, month) ==
    /\ pending[c] = {}
    /\ last' = IF ~IsAuthenticated(c)
               THEN Unauthorized(c, "month_detail", "GET", month, NoForm)
               ELSE IF month < 1 \/ month > 12
               THEN Redirect(c, "month_detail", "GET", month, NoForm, "index",
                             None, None)
               ELSE Render(c, "month_detail", "GET", month, NoForm,
                           "month_detail.html",
                           [month |-> month,
                            season_info |-> SEASON_DATA[month],
                            activities |->
                                categorized_activities(activities, session[c],
                                                       month)],
                           None)
    /\ UNCHANGED <<users, activities, session, pending>>

\* The state of a handler's unit of work: the object in the ORM session,
\* the exception raised so far (None: none), whether commit was reached.
Work(obj) == [obj |-> obj, exc |-> None, committed |-> FALSE]

\* obj.month = int(request.form['month'])
SetMonth(w, form) ==
    IF w.exc # None THEN w
    ELSE IF "month" \in form.missing
         THEN [w EXCEPT !.exc = "BadRequestKeyError"]
    ELSE IF ~IntOf(form.month).ok THEN [w EXCEPT !.exc = "ValueError"]
    ELSE [w EXCEPT !.obj.month = IntOf(form.month).value]

\* obj.<field> = request.form['<field>']
SetField(w, form, field) ==
    IF w.exc # None THEN w
    ELSE IF field \in form.missing
         THEN [w EXCEPT !.exc = "BadRequestKeyError"]
    ELSE [w EXCEPT !.obj[field] = form[field]]

\* As SetSeason, had the handler left the season as it was.
SetSeason_Stale(w) == w

\* obj.season = SEASON_DATA[obj.month]['name']
SetSeason(w) ==
    IF w.exc # None THEN w
    ELSE IF w.obj.month \notin DOMAIN SEASON_DATA
         THEN [w EXCEPT !.exc = "KeyError"]
    ELSE [w EXCEPT !.obj.season = SEASON_DATA[w.obj.month]]

\* db.session.commit()
Commit(w) == IF w.exc # None THEN w ELSE [w EXCEPT !.committed = TRUE]

\* The body of add_activity's POST branch: the form is read, the season
\* looked up while the new row is built, and the row committed.
AddWork(uid, form) ==
    Commit(SetSeason(
        SetField(SetField(SetField(SetField(
            SetMonth(Work([id |-> NextRowId(activities), user_id |-> uid,
                           month |-> 0, season |-> None,
                           activity_type |-> None, category |-> None,
                           title |-> None, description |-> None]),
                     form),
            form, "activity_type"), form, "category"), form, "title"),
            form, "description")))

\* The body of edit_activity's POST branch: the loaded row is assigned
\* field by field, the season last, and the change committed.
EditWork(activity, form) ==
    Commit(SetSeason(
        SetField(SetField(SetField(SetField(
            SetMonth(Work(activity), form),
            form, "activity_type"), form, "category"), form, "title"),
            form, "description")))

\* As Persist, had the session been committed when the request ends.
Persist_Dirty(table, old, w) == (table \ old) \cup {w.obj}

\* What the table holds once the request is over.  A committed unit of
\* work writes its object in place of the row it loaded (old; {} for an
\* INSERT).  Flask-SQLAlchemy removes the session when the request ends,
\* so the changes of a unit of work that never committed are dropped.
Persist(table, old, w) ==
    IF w.committed THEN (table \ old) \cup {w.obj} ELSE table

add_activity(c, method, form) ==
    /\ pending[c] = {}
    /\ IF ~IsAuthenticated(c)
       THEN /\ last' = Unauthorized(c, "add_activity", method, None, form)
            /\ UNCHANGED activities
       ELSE IF method = "GET"
       THEN /\ last' = Render(c, "add_activity", method, None, form,
                              "add_activity.html", None, None)
            /\ UNCHANGED activities
       ELSE LET w == AddWork(session[c], form)
            IN /\ w.committed => w.obj.id <= MaxActivityId
               /\ activities' = Persist(activities, {}, w)
               /\ last' = IF w.committed
                          THEN Redirect(c, "add_activity", method, None, form,
                                        "month_detail", w.obj.month, "added")
                          ELSE Caught(c, "add_activity", method, None, form,
                                      w.exc)
    /\ UNCHANGED <<users, session, pending>>

\* As OwnActivity, had the query been filtered by id alone.
OwnActivity_AnyUser(activity_id, uid) ==
    {a \in activities : a.id = activity_id}

\* SeasonActivity.query.filter_by(id=activity_id, user_id=uid): the rows
\* that first_or_404 chooses from.
OwnActivity(activity_id, uid) ==
    {a \in activities : a.id = activity_id /\ a.user_id = uid}

edit_activity(c, method, activity_id, form) ==
    /\ pending[c] = {}
    /\ IF ~IsAuthenticated(c)
       THEN /\ last' = Unauthorized(c, "edit_activity", method, activity_id,
                                    form)
            /\ UNCHANGED activities
       ELSE IF OwnActivity(activity_id, session[c]) = {}
       THEN \* first_or_404 aborts with NotFound inside the try block
            /\ last' = Caught(c, "edit_activity", method, activity_id, form,
                              "NotFound")
            /\ UNCHANGED activities
       ELSE LET activity == CHOOSE a \in OwnActivity(activity_id, session[c]) : TRUE
                w == EditWork(activity, form)
            IN IF method = "GET"
               THEN /\ last' = Render(c, "edit_activity", method, activity_id,
                                      form,
                                      "edit_activity.html", activity, None)
                    /\ UNCHANGED activities
               ELSE /\ activities' = Persist(activities, {activity}, w)
                    /\ last' = IF w.committed
                               THEN Redirect(c, "edit_activity", method,
                                             activity_id, form,
                                             "month_detail",
                                             w.obj.month, "updated")
                               ELSE Caught(c, "edit_activity", method,
                                           activity_id, form, w.exc)
    /\ UNCHANGED <<users, session, pending>>

delete_activity(c, activity_id) ==
    /\ pending[c] = {}
    /\ IF ~IsAuthenticated(c)
       THEN /\ last' = Unauthorized(c, "delete_activity", "GET", activity_id,
                                    NoForm)
            /\ UNCHANGED activities
       ELSE IF OwnActivity(activity_id, session[c]) = {}
       THEN /\ last' = Caught(c, "delete_activity", "GET", activity_id,
                              NoForm,
                              "NotFound")
            /\ UNCHANGED activities
       ELSE LET activity == CHOOSE a \in OwnActivity(activity_id, session[c]) : TRUE
            IN /\ activities' = activities \ {activity}
               /\ last' = Redirect(c, "delete_activity", "GET", activity_id,
                                   NoForm,
                                   "month_detail", activity.month, "deleted")
    /\ UNCHANGED <<users, session, pending>>

---------------------------------------------------------------------------
(* The requests the browsers send.                                         *)

Alice123 == <<"a","l","i","c","e","1","2","3">>
Bob45678 == <<"b","o","b","4","5","6","7","8">>
Abc == <<"a","b","c">>

RegisterForm(username, email, password, confirm_password) ==
    [username |-> username, email |-> email, password |-> password,
     confirm_password |-> confirm_password,
     missing |-> IF email = NoField THEN {"email"} ELSE {}]

ActivityForm(month, activity_type, description) ==
    [month |-> month, activity_type |-> activity_type, category |-> "outing",
     title |-> "Picnic", description |-> description,
     missing |-> IF description = NoField THEN {"description"} ELSE {}]

Init ==
    /\ users = {}
    /\ activities = {}
    /\ session = [c \in Clients |-> Anonymous]
    /\ pending = [c \in Clients |-> {}]
    /\ last = NoRequest

ActivityIds == 1..MaxActivityId

(* Spec: two browsers; registrations that clash on the username or on the  *)
(* e-mail, fail the password policy or the confirmation; logins with the   *)
(* right password, a wrong one and a username in another case.  The        *)
(* activity requests carry one form.                                       *)

LoginForms ==
    [username : Usernames, password : {Alice123, Bob45678}, missing : {{}}]
        \cup {[username |-> "Alice", password |-> Alice123, missing |-> {}],
              [username |-> "alice", password |-> <<>>, missing |-> {"password"}]}

RegisterForms ==
    {RegisterForm("alice", "a@x.com", Alice123, Alice123),
     RegisterForm("bob", "b@x.com", Alice123, Alice123),
     RegisterForm("bob", "a@x.com", Alice123, Alice123),
     RegisterForm("alice", "b@x.com", Alice123, Bob45678),
     RegisterForm("alice", "b@x.com", Abc, Abc),
     RegisterForm("alice", NoField, Alice123, Alice123)}

OneActivityForm == {ActivityForm(<<"6">>, "friends", "by the river")}

Next ==
    \E c \in Clients :
        \/ index(c)
        \/ login(c, "GET", NoForm)
        \/ \E f \in LoginForms : login(c, "POST", f)
        \/ register(c, "GET", NoForm)
        \/ \E f \in RegisterForms : register(c, "POST", f)
        \/ register_commit(c)
        \/ logout(c)
        \/ month_detail(c, 6)
        \/ \E f \in OneActivityForm : add_activity(c, "POST", f)
        \/ \E id \in ActivityIds : delete_activity(c, id)

Spec == Init /\ [][Next]_vars

(* SpecAct: one browser, which alice and bob use in turn, and activity     *)
(* forms with months inside and outside 1..12, a month that is no number,  *)
(* a type that is none of the four, and a missing field.                   *)

Browser == "c1"

AccountForms ==
    {RegisterForm("alice", "a@x.com", Alice123, Alice123),
     RegisterForm("bob", "b@x.com", Bob45678, Bob45678)}

AccountLogins ==
    {[username |-> f.username, password |-> f.password, missing |-> {}] :
        f \in AccountForms}

ActivityForms ==
    {ActivityForm(<<"5">>, "friends", "by the river"),
     ActivityForm(<<"6">>, "family", "by the river"),
     ActivityForm(<<"6">>, "pet", "by the river"),
     ActivityForm(<<"1","3">>, "pet", "by the river"),
     ActivityForm(<<"0">>, "friends", "by the river"),
     ActivityForm(<<"x">>, "friends", "by the river"),
     ActivityForm(<<"5">>, "pet", NoField)}

MonthParams == {5, 6, 13}

NextAct ==
    \/ index(Browser)
    \/ \E f \in AccountLogins : login(Browser, "POST", f)
    \/ \E f \in AccountForms : register(Browser, "POST", f)
    \/ register_commit(Browser)
    \/ logout(Browser)
    \/ \E month \in MonthParams : month_detail(Browser, month)
    \/ add_activity(Browser, "GET", NoForm)
    \/ \E f \in ActivityForms : add_activity(Browser, "POST", f)
    \/ \E id \in ActivityIds : edit_activity(Browser, "GET", id, NoForm)
    \/ \E id \in ActivityIds, f \in ActivityForms :
           edit_activity(Browser, "POST", id, f)
    \/ \E id \in ActivityIds : delete_activity(Browser, id)

SpecAct == Init /\ [][NextAct]_vars

(* SpecPw: registrations of one account whose passwords are every prefix  *)
(* of a ten-character ASCII pattern up to MaxPwLen characters, as it is    *)
(* and with any one position replaced by a character outside [a-zA-Z0-9].  *)

PwPattern == <<"a","B","c","1","d","E","2","f","G","3">>

PwBase(n) == [i \in 1..n |-> PwPattern[((i - 1) % Len(PwPattern)) + 1]]

OtherChars == {" ", "e_acute", "!", "\n"}

PwInputs ==
    {PwBase(n) : n \in 0..MaxPwLen}
        \cup UNION {{[PwBase(n) EXCEPT ![i] = ch] : i \in 1..n, ch \in OtherChars} :
                       n \in 1..MaxPwLen}

PwForms ==
    {RegisterForm("alice", "a@x.com", pw, pw) : pw \in PwInputs}
        \cup {RegisterForm("alice", "a@x.com", pw, Alice123) : pw \in PwInputs}

NextPw ==
    \/ \E f \in PwForms : register(Browser, "POST", f)
    \/ register_commit(Browser)
    \/ logout(Browser)

SpecPw == Init /\ [][NextPw]_vars

---------------------------------------------------------------------------
(* Properties.  In an action formula the unprimed variables are the state  *)
(* a request finds and last' is that request with its response.            *)

Requester == last'.client

\* The response of a successful add_activity, edit_activity or
\* delete_activity: the redirect to the month's page.
Succeeded(r) == r.status = 302 /\ r.page = "month_detail"
ById == {"edit_activity", "delete_activity"}
Ids(table) == {a.id : a \in table}

\* C1: a row of the activity table is changed or removed only by an
\* edit_activity or delete_activity request that names it and whose session
\* user owns it; such a request naming a row of another user leaves the
\* whole table as it was.
C1_OwnerOnly ==
    [][/\ \A a \in activities :
            a \notin activities' =>
                /\ last'.route \in ById
                /\ last'.arg = a.id
                /\ session[Requester] = a.user_id
       /\ (/\ last'.route \in ById
           /\ \E a \in activities :
                  a.id = last'.arg /\ a.user_id # session[Requester])
          => activities' = activities]_vars

\* A POST to edit_activity by a logged-in user has just been refused for a
\* row that exists and belongs to somebody else.
C1_Witness ==
    /\ last.route = "edit_activity"
    /\ last.method = "POST"
    /\ ~Succeeded(last)
    /\ session[last.client] # Anonymous
    /\ \E a \in activities : a.id = last.arg /\ a.user_id # session[last.client]

\* C2: for a logged-in user, edit_activity and delete_activity answer 404
\* when the session user owns no row with the id, whether the id is unknown
\* or another user's.
C2_NotFoundIs404 ==
    [][(/\ last'.route \in ById
        /\ IsAuthenticated(Requester)
        /\ OwnActivity(last'.arg, session[Requester]) = {})
       => last'.status = 404]_vars

\* The season table as the specification states it.
SeasonOfMonth(m) ==
    IF m \in {12, 1, 2} THEN "winter"
    ELSE IF m \in 3..5 THEN "spring"
    ELSE IF m \in 6..8 THEN "summer"
    ELSE "autumn"

\* C3: every stored activity has a month in 1..12 and the season of that
\* month.
C3_MonthAndSeason ==
    \A a \in activities :
        a.month \in 1..12 /\ a.season = SeasonOfMonth(a.month)

\* An edit of the requester's own row that submitted a month outside 1..12
\* has just been refused.
C3_Witness ==
    /\ last.route = "edit_activity"
    /\ last.method = "POST"
    /\ last.form.month = <<"1", "3">>
    /\ \E a \in activities :
           a.id = last.arg /\ a.user_id = session[last.client] /\ a.month = 5

\* C4: usernames and e-mails are unique in the user table, and a register
\* request that completes while its username or its e-mail belongs to a
\* stored user creates no user and leaves every session as it was; sent
\* from an anonymous session it is answered with the form and a message
\* or with an error, never with the redirect of a successful registration.
C4_Unique ==
    /\ [](\A u, v \in users :
              (u.username = v.username \/ u.email = v.email) => u = v)
    /\ [][(/\ last'.route = "register"
           /\ last'.method = "POST"
           /\ last'.status # 0
           /\ last'.form.missing = {}
           /\ \E u \in users : \/ u.username = last'.form.username
                               \/ u.email = last'.form.email)
          => /\ users' = users
             /\ session' = session
             /\ session[Requester] = Anonymous =>
                    \/ last'.status = 200 /\ last'.flash \in
                           {"username_taken", "email_taken"}
                    \/ last'.status = 500]_vars

\* Two registrations of one username ran side by side: the second commit
\* was refused by the database while the other browser holds the account.
C4_Witness ==
    /\ last.log = "IntegrityError"
    /\ session[last.client] = Anonymous
    /\ \E c \in Clients : session[c] # Anonymous
    /\ \E u \in users : u.username = last.form.username

\* The password policy as the specification states it.
PolicyOk(password) ==
    /\ Len(password) >= 8
    /\ \A i \in 1..Len(password) :
           password[i] \in AsciiLower \cup AsciiUpper \cup Digits

\* C5: a register request creates a user only if its password has at least
\* 8 characters, all of them ASCII letters or digits, and equals the
\* confirmation.
C5_PasswordPolicy ==
    [][users' # users =>
          /\ last'.route = "register"
          /\ PolicyOk(last'.form.password)
          /\ last'.form.password = last'.form.confirm_password]_vars

\* The routes the specification protects.
Protected ==
    {"index", "month_detail", "add_activity", "edit_activity",
     "delete_activity", "logout"}

\* C6: a request to a protected route from an anonymous session is answered
\* with a redirect to login that carries no data, and changes neither table
\* nor any session.
C6_AnonymousRedirected ==
    [][(session[Requester] = Anonymous /\ last'.route \in Protected)
       => /\ last'.status = 302
          /\ last'.page = "login"
          /\ last'.data = None
          /\ UNCHANGED <<users, activities, session>>]_vars

\* An anonymous browser has just asked to delete a stored activity.
C6_Witness ==
    /\ last.route = "delete_activity"
    /\ session[last.client] = Anonymous
    /\ last.arg \in Ids(activities)

\* The password a stored hash was made from.
PasswordOf(u) == u.password_hash.digest[2]

\* C7: a session becomes u's only by a login POST carrying u's username and
\* password or by the register request that created u; a login or register
\* request that does not succeed leaves every session as it was; sent from
\* a logged-in session it changes no session and no table; a session
\* becomes anonymous by logout only, and logout leaves it anonymous.
C7_SessionSteps ==
    [][/\ \A c \in Clients :
            (session'[c] # session[c] /\ session'[c] # Anonymous) =>
                /\ Requester = c
                /\ session[c] = Anonymous
                /\ \/ /\ last'.route = "login"
                      /\ last'.method = "POST"
                      /\ \E u \in users :
                             /\ u.id = session'[c]
                             /\ u.username = last'.form.username
                             /\ PasswordOf(u) = last'.form.password
                   \/ /\ last'.route = "register"
                      /\ \E u \in users' \ users :
                             /\ u.id = session'[c]
                             /\ u.username = last'.form.username
                             /\ u.email = last'.form.email
                             /\ PasswordOf(u) = last'.form.password
       /\ \A c \in Clients :
            (session'[c] # session[c] /\ session'[c] = Anonymous) =>
                Requester = c /\ last'.route = "logout"
       /\ (last'.route \in {"login", "register"}
              /\ last'.flash \notin {"logged_in", "welcome"})
          => session' = session /\ users' = users
       /\ (last'.route \in {"login", "register"}
              /\ session[Requester] # Anonymous)
          => UNCHANGED <<session, users, activities, pending>>
       /\ last'.route = "logout" => session'[Requester] = Anonymous]_vars

\* A browser has logged in to an account that another browser registered,
\* while activities are stored.
C7_Witness ==
    /\ last.route = "login"
    /\ last.flash = "logged_in"
    /\ \E c \in Clients \ {last.client} : session[c] = session[last.client]
    /\ activities # {}

\* The month a form submits: the number its month field spells, 0 if it
\* spells none.
SubmittedMonth(form) ==
    IF "month" \in form.missing \/ form.month = <<>> THEN 0
    ELSE IF \A i \in 1..Len(form.month) : form.month[i] \in Digits
    THEN DigitsValue(form.month)
    ELSE 0

\* The four groups as the specification names them.
FourGroups == {"alone", "friends", "family", "elderly"}

\* The group names under which a row (or any row with its id) is shown in
\* the listing of month m for user u.
GroupsShowing(table, u, m, id) ==
    LET listing == categorized_activities(table, u, m)
    IN {g \in DOMAIN listing :
            \E i \in 1..Len(listing[g]) : listing[g][i].id = id}

\* The group a row belongs in: its type if that is one of the four.
GroupOf(a) == {a.activity_type} \cap FourGroups

\* C8: the listing of month m for user u has the four groups; together
\* they hold, once each, exactly u's stored rows of month m whose type is
\* one of the four, each in the group of its type.  A created row is shown
\* in the listing of its month under its type only, and in no other month;
\* a row an edit moved to another month is shown in no group of the old
\* month and, in the new month, under its type only.
C8_Listing ==
    /\ [](last.route = "month_detail" /\ last.status = 200 =>
            LET listing == last.data.activities
                u == session[last.client]
                m == last.arg
            IN /\ DOMAIN listing = FourGroups
               /\ \A g \in FourGroups :
                      /\ \A i \in 1..Len(listing[g]) :
                             /\ listing[g][i] \in activities
                             /\ listing[g][i].user_id = u
                             /\ listing[g][i].month = m
                             /\ listing[g][i].activity_type = g
                      /\ \A i, j \in 1..Len(listing[g]) :
                             listing[g][i] = listing[g][j] => i = j
               /\ \A a \in activities :
                      (a.user_id = u /\ a.month = m
                          /\ a.activity_type \in FourGroups)
                      => \E i \in 1..Len(listing[a.activity_type]) :
                             listing[a.activity_type][i] = a)
    /\ [][/\ (last'.route = "add_activity" /\ Succeeded(last')) =>
                \E a \in activities' \ activities :
                    /\ activities' = activities \cup {a}
                    /\ a.user_id = session[Requester]
                    /\ a.month = SubmittedMonth(last'.form)
                    /\ a.activity_type = last'.form.activity_type
                    /\ last'.data = a.month
                    /\ \A m \in 1..12 :
                           GroupsShowing(activities', a.user_id, m, a.id) =
                               IF m = a.month THEN GroupOf(a) ELSE {}
          /\ (last'.route = "edit_activity" /\ Succeeded(last')) =>
                \E a \in activities, b \in activities' :
                    /\ a.id = last'.arg /\ b.id = last'.arg
                    /\ b.month = SubmittedMonth(last'.form)
                    /\ b.activity_type = last'.form.activity_type
                    /\ last'.data = b.month
                    /\ \A m \in 1..12 :
                           GroupsShowing(activities', a.user_id, m, a.id) =
                               IF m = b.month THEN GroupOf(b) ELSE {}]_vars

\* A listing has just been shown that holds a row, while a row of another
\* user is stored for the same month.
C8_Witness ==
    /\ last.route = "month_detail"
    /\ last.status = 200
    /\ Len(last.data.activities["friends"]) > 0
    /\ \E b \in activities :
           b.month = last.arg /\ b.user_id # session[last.client]

\* The number of u's stored rows with month m.
CountOf(table, u, m) ==
    Cardinality({a \in table : a.user_id = u /\ a.month = m})

\* C9: the dashboard's counts have the keys 1..12, each the number of the
\* user's stored rows of that month.  A successful delete_activity removes
\* exactly the named row: the owner's count of its month drops by one, every
\* other count of every user stays, and no listing shows the row.  A row
\* with an id the table lacks appears only by a successful add_activity.
C9_Counts ==
    /\ [](last.route = "index" /\ last.status = 200 =>
            /\ DOMAIN last.data = 1..12
            /\ \A m \in 1..12 :
                   last.data[m] = CountOf(activities, session[last.client], m))
    /\ [][/\ (last'.route = "delete_activity" /\ Succeeded(last')) =>
                \E a \in activities :
                    /\ a.id = last'.arg
                    /\ a.user_id = session[Requester]
                    /\ a.month = last'.data
                    /\ last'.arg \notin Ids(activities')
                    /\ \A u \in {0} \cup {x.id : x \in users}, m \in 1..12 :
                           /\ MonthCounts(activities', u)[m] =
                                  IF u = a.user_id /\ m = a.month
                                  THEN MonthCounts(activities, u)[m] - 1
                                  ELSE MonthCounts(activities, u)[m]
                           /\ CountOf(activities', u, m) =
                                  MonthCounts(activities', u)[m]
                           /\ GroupsShowing(activities', u, m, a.id) = {}
          /\ Ids(activities') \ Ids(activities) # {} =>
                last'.route = "add_activity" /\ Succeeded(last')]_vars

\* A delete has just succeeded and left a row of another user in the same
\* month.
C9_Witness ==
    /\ last.route = "delete_activity"
    /\ Succeeded(last)
    /\ \E b \in activities :
           b.user_id # session[last.client] /\ b.month = last.data

\* The routes that write to the activity table.
Writers == {"add_activity", "edit_activity", "delete_activity"}

\* The row a form describes, for a given id and owner.
RowOf(id, uid, form) ==
    [id |-> id, user_id |-> uid, month |-> SubmittedMonth(form),
     season |-> SeasonOfMonth(SubmittedMonth(form)),
     activity_type |-> form.activity_type, category |-> form.category,
     title |-> form.title, description |-> form.description]

\* C10: a POST to add_activity or edit_activity whose form lacks a field or
\* submits a month outside 1..12, and an edit_activity or delete_activity
\* request for an id the requester owns no row of, are answered with an
\* error; a request answered with an error leaves the activity table as it
\* was; and when the table changes, the request succeeded and the change is
\* whole: one row removed, or one row added or replaced that has every
\* field of the form and the season of its month.
C10_AllOrNothing ==
    [][/\ (/\ last'.route \in {"add_activity", "edit_activity"}
           /\ last'.method = "POST"
           /\ session[Requester] # Anonymous
           /\ \/ last'.form.missing # {}
              \/ SubmittedMonth(last'.form) \notin 1..12)
          => ~Succeeded(last') /\ last'.status >= 400
       /\ (/\ last'.route \in ById
           /\ session[Requester] # Anonymous
           /\ ~\E a \in activities :
                  a.id = last'.arg /\ a.user_id = session[Requester])
          => ~Succeeded(last') /\ last'.status >= 400
       /\ (last'.route \in Writers /\ last'.status >= 400)
          => activities' = activities
       /\ activities' # activities =>
             /\ last'.route \in Writers
             /\ Succeeded(last')
             /\ \/ /\ last'.route = "delete_activity"
                   /\ \E a \in activities :
                          a.id = last'.arg /\ activities' = activities \ {a}
                \/ /\ last'.route = "add_activity"
                   /\ \E id \in 1..MaxActivityId :
                          /\ id \notin Ids(activities)
                          /\ activities' = activities \cup
                                 {RowOf(id, session[Requester], last'.form)}
                \/ /\ last'.route = "edit_activity"
                   /\ \E a \in activities :
                          /\ a.id = last'.arg
                          /\ activities' = (activities \ {a}) \cup
                                 {RowOf(a.id, a.user_id, last'.form)}]_vars

\* An edit of the requester's own row has just failed after the month had
\* been assigned: the month was out of range, or a later field was missing.
C10_Witness ==
    /\ last.route = "edit_activity"
    /\ last.method = "POST"
    /\ last.log \in {"KeyError", "BadRequestKeyError"}
    /\ \E a \in activities :
           a.id = last.arg /\ a.user_id = session[last.client] /\ a.month = 6

=============================================================================
